---------------------------- MODULE Spec2Model ----------------------------
(***************************************************************************)
(* batchr: a streaming dump lexer (src/src/parse.rs), the segmentation     *)
(* pass, the definitions import, the table workers and DB::import          *)
(* (src/src/main.rs).                                                      *)
(*                                                                         *)
(* Texts are TLA+ strings, read one character at a time with SubSeq.  One  *)
(* character is one byte, except the letter X, which abbreviates a run of  *)
(* BLOCK_BYTES payload bytes (no operation of the program looks inside     *)
(* such a run: it holds no newline, no ';', no '-', ':' or space), and     *)
(* the character ~, which stands for one byte that is not valid UTF-8.     *)
(***************************************************************************)
EXTENDS Integers, Sequences, FiniteSets, TLC

VARIABLES
    file,             \* the dump: the bytes of the file at `filepath`
    debug,            \* the build: TRUE when debug assertions are compiled in
    pc,               \* where main is
    stream,           \* main's StatementStream (segmentation pass)
    section,          \* main's `section`
    definitions,      \* main's `definitions`
    tables,           \* main's `tables`
    data_offset,      \* main's `data_offset`
    data_statements,  \* main's `data_statements`
    scan,             \* history: the Query tokens the segmentation pass read
    workers,          \* one record per table future of the worker pool
    sink,             \* history: the import requests the sink received
    files,            \* the "<table>-Errors.json" files written so far
    imp,              \* one call of DB::import, step by step
    lex               \* history: one StatementStream read call by call

vars == <<file, debug, pc, stream, section, definitions, tables, data_offset,
          data_statements, scan, workers, sink, files, imp, lex>>

(***************************************************************************)
(* Bounds of the model.                                                    *)
(***************************************************************************)
BLOCK_BYTES == 999998
MaxLines == 4
MaxChunks == 4
MaxBatchLen == 3
MaxCompleted == 2
MaxLexLines == 3
MaxCalls == 5
PoolTables == 11

(***************************************************************************)
(* Program constants.                                                      *)
(***************************************************************************)
BATCH_TARGET_BYTES == 2000000
BUFFER_UNORDERED == 10

(***************************************************************************)
(* Strings, as the standard library functions the program calls.           *)
(***************************************************************************)
Char(s, i) == SubSeq(s, i, i)

\* The number of payload blocks in s.
CountBlocks(s) == Cardinality({i \in 1..Len(s) : Char(s, i) = "X"})

\* str::len / String::len: the length in bytes.
len(s) == Len(s) + (BLOCK_BYTES - 1) * CountBlocks(s)

starts_with(s, p) == Len(s) >= Len(p) /\ SubSeq(s, 1, Len(p)) = p

ends_with(s, p) == Len(s) >= Len(p) /\ SubSeq(s, Len(s) - Len(p) + 1, Len(s)) = p

\* The least element of a non-empty set of numbers.
Least(S) == CHOOSE i \in S : \A j \in S : i <= j

\* str::trim_start_matches: s without its longest prefix of characters in cs.
RECURSIVE trim_start_matches(_, _)
trim_start_matches(s, cs) ==
    IF s # "" /\ Char(s, 1) \in cs
    THEN trim_start_matches(SubSeq(s, 2, Len(s)), cs)
    ELSE s

\* str::trim_end_matches: s without its longest suffix of characters in cs.
RECURSIVE trim_end_matches(_, _)
trim_end_matches(s, cs) ==
    IF s # "" /\ Char(s, Len(s)) \in cs
    THEN trim_end_matches(SubSeq(s, 1, Len(s) - 1), cs)
    ELSE s

trim_matches(s, cs) ==
    CHOOSE out \in {trim_end_matches(t, cs) :
                       t \in {trim_start_matches(s, cs)}} : TRUE

\* str::find: the index (from 0, counted in characters of the model) of the
\* first occurrence of p in s, or -1 for None.
find(s, p) ==
    LET at == {i \in 0..(Len(s) - Len(p)) : SubSeq(s, i + 1, i + Len(p)) = p}
    IN  IF at = {} THEN -1 ELSE Least(at)

contains(s, p) == find(s, p) >= 0

split_at(s, index) == <<SubSeq(s, 1, index), SubSeq(s, index + 1, Len(s))>>

RECURSIVE join(_, _)
join(ss, sep) ==
    IF ss = <<>> THEN ""
    ELSE IF Len(ss) = 1 THEN ss[1]
    ELSE ss[1] \o sep \o join(Tail(ss), sep)

(***************************************************************************)
(* parse.rs: StatementStream.                                              *)
(***************************************************************************)
NoPos == -1

\* StatementStream::new on a file whose cursor is at character `cur`, which
\* is byte `pos` of the file; the reader keeps its position as it reads.
StatementStream(cur, pos) ==
    [cur |-> cur, pos |-> pos, pending |-> "", stmt_start_pos |-> NoPos]

\* The byte offset of cursor `cur` in file f.
stream_position(f, cur) == len(SubSeq(f, 1, cur))

\* file.seek(SeekFrom::Start(offset)): the cursor at byte `offset`.
seek(f, offset) ==
    CHOOSE cur \in {offset - k * (BLOCK_BYTES - 1) : k \in 0..CountBlocks(f)} :
        cur \in 0..Len(f) /\ stream_position(f, cur) = offset

\* The index of the newline that ends the line starting at i, or the end of
\* the file when there is none.
RECURSIVE LineEnd(_, _)
LineEnd(f, i) ==
    IF i >= Len(f) THEN Len(f)
    ELSE IF Char(f, i) = "\n" THEN i
    ELSE LineEnd(f, i + 1)

\* reader.read_until(b'\n', buf): the bytes up to and including the next
\* newline, or up to the end of the file; "" at the end of the file.
read_until(f, cur) == SubSeq(f, cur + 1, LineEnd(f, cur + 1))

\* std::str::from_utf8 succeeds.
from_utf8_ok(line) == ~contains(line, "~")

Tok(kind, off, text) == [kind |-> kind, off |-> off, text |-> text]

\* Lines 68-69 without the two takes: the accumulator is left as it is.
take_Kept(st) == st

\* Lines 68-69: std::mem::take(&mut self.pending), self.stmt_start_pos.take().
take(st) == [st EXCEPT !.pending = "", !.stmt_start_pos = NoPos]

\* next_statement: the token returned and the stream afterwards.  Token
\* kinds: "None" (clean EOF), "Comment", "Query", "Err" (io::Error) and
\* "Panic" (the debug_assert fails in a build that compiles it in).
\* OnLine is one turn of the loop, for the line read and the position
\* before it (lines 63-108); next_statement binds the two, so that each is
\* computed once per turn.
RECURSIVE next_statement(_, _, _)
OnLine(f, dbg, st, line, pos_before_line) ==
    LET after == st.cur + Len(line)
        pos_after == pos_before_line + len(line)
        read == [st EXCEPT !.cur = after, !.pos = pos_after]
    IN  IF line = ""
        THEN IF st.pending = ""
             THEN [tok |-> Tok("None", 0, ""), st |-> st]
             ELSE [tok |-> Tok("Query",
                               IF st.stmt_start_pos = NoPos THEN 0
                               ELSE st.stmt_start_pos,
                               st.pending),
                   st |-> take(st)]
        ELSE IF ~from_utf8_ok(line)
        THEN [tok |-> Tok("Err", 0, ""), st |-> read]
        ELSE IF starts_with(line, "--")
        THEN IF dbg /\ st.pending # ""
             THEN [tok |-> Tok("Panic", 0, ""), st |-> read]
             ELSE [tok |-> Tok("Comment", pos_before_line,
                               trim_end_matches(line, {"\n"})),
                   st |-> read]
        ELSE LET start == IF st.pending = "" THEN pos_before_line
                          ELSE st.stmt_start_pos
                 pending == st.pending \o line
             IN  IF ends_with(pending, ";\n")
                 THEN [tok |-> Tok("Query",
                                   IF start = NoPos THEN pos_before_line ELSE start,
                                   pending),
                       st |-> [cur |-> after, pos |-> pos_after,
                               pending |-> "", stmt_start_pos |-> NoPos]]
                 ELSE next_statement(f, dbg,
                          [cur |-> after, pos |-> pos_after,
                           pending |-> pending, stmt_start_pos |-> start])

next_statement(f, dbg, st) ==
    CHOOSE out \in {OnLine(f, dbg, s, line, pos) :
                       s \in {st},
                       line \in {read_until(f, st.cur)},
                       pos \in {st.pos}} : TRUE

(***************************************************************************)
(* main.rs: comment classification (the same code in the segmentation      *)
(* pass and in a table worker).                                            *)
(***************************************************************************)
\* Lines 70-81 and 177-188: the comment without its dashes, split at the
\* first ": " into a prefix and a suffix.
ClassifyParts(parts) ==
    [prefix |-> trim_matches(parts[1], {":", " "}),
     suffix |-> trim_matches(parts[2], {":", " "})]

ClassifySplit(comment, index) ==
    CHOOSE out \in {ClassifyParts(parts) :
                       parts \in {IF index >= 0 THEN split_at(comment, index)
                                  ELSE <<comment, "">>}} : TRUE

ClassifyFind(comment) ==
    CHOOSE out \in {ClassifySplit(comment, index) :
                       index \in {find(comment, ": ")}} : TRUE

Classify(text) ==
    CHOOSE out \in {ClassifyFind(comment) :
                       comment \in {trim_matches(text, {"-", " "})}} : TRUE

(***************************************************************************)
(* main.rs: DB::import.                                                    *)
(***************************************************************************)
ABORTED == "not executed due to a failed transaction"

\* What the sink can answer to one request.  kind: "send_err" (the request
\* fails in transport: `.send().await?`), "http" (a response with a
\* non-success status), "bad_json" (a success response whose body is not an
\* array of {status, result} with string fields) and "json".
Response(kind, results) == [kind |-> kind, results |-> results]

Result(status, result) == [status |-> status, result |-> result]

Ret(kind, index) == [kind |-> kind, index |-> index]

IsErr(ret) == ret.kind # "Ok"

\* Lines 292-303: the result texts of the results whose status is "ERR".
RECURSIVE CollectErrors(_)
CollectErrors(results) ==
    IF results = <<>> THEN <<>>
    ELSE (IF Head(results).status = "ERR" THEN <<Head(results).result>>
          ELSE <<>>) \o CollectErrors(Tail(results))

\* Lines 306-312: the record written to "<table>-Errors.json".
DumpFile(table, errors, batch) ==
    [table |-> table, errors |-> errors, queries |-> batch]

IsPrimary(err) == ~contains(err, ABORTED)

\* Lines 314-322: `for (index, err) in errors.iter().enumerate()`, from
\* `index` on.  Both arms of the body return: the second return is inside
\* the loop, so the loop never reaches a second error.
AttributeFrom(errors, index, completed) ==
    IF index >= Len(errors) THEN Ret("Ok", 0)
    ELSE IF IsPrimary(errors[index + 1])
    THEN Ret("Index", index + completed)
    ELSE Ret("Unknown", 0)

Attribute(errors, completed) == AttributeFrom(errors, 0, completed)

\* Lines 283-289: the response is refused before any result is read.
Refused(resp) == resp.kind # "json"

RefusedRet(resp) ==
    IF resp.kind = "send_err" THEN Ret("Transport", 0)
    ELSE IF resp.kind = "http" THEN Ret("Http", 0)
    ELSE Ret("Json", 0)

\* The whole of DB::import for one answer of the sink and one outcome of the
\* file system (io_ok: File::create, to_writer_pretty and sync_all succeed):
\* the value returned and the files afterwards.
\* Lines 306-312 left out: nothing is written.
WriteDump_Skip(fs, rec) == fs

WriteDump(fs, rec) == {x \in fs : x.table # rec.table} \cup {rec}

import(table, completed, batch, resp, io_ok, fs) ==
    IF Refused(resp) THEN [ret |-> RefusedRet(resp), files |-> fs]
    ELSE LET errors == CollectErrors(resp.results)
         IN  IF errors = <<>> THEN [ret |-> Ret("Ok", 0), files |-> fs]
             ELSE IF ~io_ok THEN [ret |-> Ret("Io", 0), files |-> fs]
             ELSE [ret |-> Attribute(errors, completed),
                   files |-> WriteDump(fs, DumpFile(table, errors, batch))]

\* The answers the sink is given in a run of main: success for every
\* statement, a refused request, or a first failing statement followed by
\* the statements its aborted transaction did not execute.
AllOk(batch) == [i \in 1..Len(batch) |-> Result("OK", "")]

FirstFails(batch) ==
    [i \in 1..Len(batch) |->
        IF i = 1 THEN Result("ERR", "duplicate key")
        ELSE Result("ERR", "The query was " \o ABORTED)]

SinkResponses(batch) ==
    {Response("json", AllOk(batch)), Response("http", <<>>),
     Response("json", FirstFails(batch))}

(***************************************************************************)
(* main.rs: the segmentation pass (lines 60-134).                          *)
(***************************************************************************)
Definitions(table) == [kind |-> "Definitions", table |-> table]

Data(table) == [kind |-> "Data", table |-> table]

Table(name, offset, statements) ==
    [name |-> name, offset |-> offset, statements |-> statements]

\* The pass's local variables, as one record.
Seg(sec, defs, tabs, off, n) ==
    [section |-> sec, definitions |-> defs, tables |-> tabs,
     data_offset |-> off, data_statements |-> n]

\* OnTable without line 98: the count is not reset when a segment is pushed.
OnTable_NoReset(s, suffix) ==
    IF s.section.kind = "Data"
    THEN [s EXCEPT !.tables = Append(s.tables,
                       Table(s.section.table, s.data_offset, s.data_statements)),
                   !.section = Definitions(suffix)]
    ELSE [s EXCEPT !.section = Definitions(suffix)]

\* Lines 88-102: a "TABLE" comment.
OnTable(s, suffix) ==
    IF s.section.kind = "Data"
    THEN [s EXCEPT !.tables = Append(s.tables,
                       Table(s.section.table, s.data_offset, s.data_statements)),
                   !.data_statements = 0,
                   !.section = Definitions(suffix)]
    ELSE [s EXCEPT !.section = Definitions(suffix)]

\* Lines 103-106: a "TABLE DATA" comment.
OnTableData(s, suffix, offset) ==
    [s EXCEPT !.section = Data(suffix), !.data_offset = offset]

\* Lines 110-119: a Query token.
OnQuery(s, query) ==
    IF s.section.kind = "Definitions"
    THEN [s EXCEPT !.definitions = Append(s.definitions, query)]
    ELSE [s EXCEPT !.data_statements = s.data_statements + 1]

\* Lines 70-109: a Comment token.
OnComment(s, tok) ==
    LET c == Classify(tok.text)
    IN  IF c.prefix = "TABLE" THEN OnTable(s, c.suffix)
        ELSE IF c.prefix = "TABLE DATA" THEN OnTableData(s, c.suffix, tok.off)
        ELSE s

\* Lines 124-134: the end of the file.
OnEof(s) ==
    IF s.section.kind = "Data"
    THEN [s EXCEPT !.tables = Append(s.tables,
                       Table(s.section.table, s.data_offset, s.data_statements)),
                   !.data_statements = 0]
    ELSE s

\* History of the pass: n, the Query tokens read; open, the Query tokens
\* read since the count was last zero; segs[i], the Query tokens counted in
\* tables[i].statements.
ScanStep(h, before, after, tok) ==
    LET open == IF tok.kind = "Query" /\ before.section.kind = "Data"
                THEN Append(h.open, [off |-> tok.off, text |-> tok.text])
                ELSE h.open
        pushed == Len(after.tables) > Len(before.tables)
    IN  [n |-> h.n + (IF tok.kind = "Query" THEN 1 ELSE 0),
         open |-> IF pushed THEN <<>> ELSE open,
         segs |-> IF pushed THEN Append(h.segs, open) ELSE h.segs]


(***************************************************************************)
(* main.rs: a table worker (lines 156-234).                                *)
(***************************************************************************)
\* Line 213 with `>` for `>=`.
BatchFull_Greater(bytes) == bytes > BATCH_TARGET_BYTES

\* Line 213: the batch has reached the target.
BatchFull(bytes) == bytes >= BATCH_TARGET_BYTES

\* Line 212 with the statement put at the front of the batch.
Push_Front(w, tok) ==
    [w EXCEPT !.bytes = w.bytes + len(tok.text),
              !.batch = <<tok.text>> \o w.batch,
              !.offs = <<tok.off>> \o w.offs]

\* Lines 210-212: a Query token joins the batch.  offs is history: the
\* offset of each statement of the batch.
Push(w, tok) ==
    [w EXCEPT !.bytes = w.bytes + len(tok.text),
              !.batch = Append(w.batch, tok.text),
              !.offs = Append(w.offs, tok.off)]

\* Lines 174-218: the inner loop, from the worker's stream position to the
\* statement that fills the batch, the next "TABLE" comment or the end of
\* the file.  A lexer error is unwrapped: the worker panics.
RECURSIVE Fill(_, _, _)
OnToken(f, dbg, w, r) ==
    LET tok == r.tok
        w1 == [w EXCEPT !.stream = r.st]
    IN  IF tok.kind = "None" THEN w1
        ELSE IF tok.kind \in {"Err", "Panic"} THEN [w1 EXCEPT !.pc = "panic"]
        ELSE IF tok.kind = "Comment"
        THEN IF Classify(tok.text).prefix = "TABLE" THEN w1
             ELSE Fill(f, dbg, w1)
        ELSE LET w2 == Push(w1, tok)
             IN  IF BatchFull(w2.bytes) THEN w2 ELSE Fill(f, dbg, w2)

Fill(f, dbg, w) ==
    CHOOSE out \in {OnToken(f, dbg, w0, r) :
                       w0 \in {w},
                       r \in {next_statement(f, dbg, w.stream)}} : TRUE

\* Line 173: `while completed < table.statements`.
LoopPc(completed, table) ==
    IF completed < table.statements THEN "read" ELSE "done"

\* Lines 229-232: after db.import has returned, with Ok or with Err.
AfterImport(w, table, failed) ==
    LET completed == w.completed + Len(w.batch)
    IN  [w EXCEPT !.completed = completed,
                  !.sent = w.sent \o w.offs,
                  !.batch = <<>>, !.offs = <<>>, !.bytes = 0,
                  !.failed = w.failed \/ failed,
                  !.pc = LoopPc(completed, table)]

Idle == [pc |-> "idle", stream |-> StatementStream(0, 0), completed |-> 0,
         batch |-> <<>>, offs |-> <<>>, bytes |-> 0, sent |-> <<>>,
         failed |-> FALSE]

\* Lines 166-173: the future is polled for the first time.
Started(f, table) ==
    [Idle EXCEPT !.stream = StatementStream(seek(f, table.offset),
                                              table.offset),
                 !.pc = LoopPc(0, table)]

\* buffer_unordered(10): the futures taken from the stream and not finished.
Active == {i \in DOMAIN workers : workers[i].pc \in {"read", "import"}}

NextToStart(i) ==
    /\ i \in DOMAIN workers
    /\ workers[i].pc = "idle"
    /\ \A j \in 1..(i - 1) : workers[j].pc # "idle"

\* buffer_unordered without its limit.
CanStart_Unbounded == TRUE

CanStart == Cardinality(Active) < BUFFER_UNORDERED

(***************************************************************************)
(* The run of main.                                                        *)
(***************************************************************************)
\* No stream is observed call by call.
LexOff == [start |-> 0, calls |-> 0, before |-> StatementStream(0, 0),
           tok |-> Tok("None", 0, ""), toks |-> <<>>]

ImpOff == [pc |-> "off", table |-> "", completed |-> 0, batch |-> <<>>,
           results |-> <<>>, errors |-> <<>>, ret |-> Ret("Ok", 0)]

RECURSIVE Dumps(_, _)
Dumps(lib, n) ==
    IF n = 0 THEN {""}
    ELSE LET D == Dumps(lib, n - 1)
         IN  D \cup {d \o l : d \in D, l \in lib}

Lines == {"-- TABLE: a\n", "-- TABLE DATA: a\n", "-- TABLE DATA: b\n",
          "-- ---\n", "q;\n", "X;\n", "\n"}

\* Whole pieces of a dump, for the runs that need more sections than
\* MaxLines lines hold; none leaves a statement open, so the build's debug
\* assertion is never evaluated on a pending statement.
Chunks == {"-- TABLE: a\n", "-- TABLE: a\nq;\n", "-- TABLE DATA: a\nq;\n",
           "-- TABLE DATA: b\n", "-- TABLE DATA: b\nq;\n"}

InitRun(dumps, builds) ==
    /\ file \in dumps
    /\ debug \in builds
    /\ pc = "start"
    /\ stream = StatementStream(0, 0)
    /\ section = Definitions("Initial")
    /\ definitions = <<>>
    /\ tables = <<>>
    /\ data_offset = 0
    /\ data_statements = 0
    /\ scan = [n |-> 0, open |-> <<>>, segs |-> <<>>]
    /\ workers = <<>>
    /\ sink = [defs |-> "none", inflight |-> <<>>]
    /\ files = {}
    /\ imp = ImpOff
    /\ lex = LexOff

Init == InitRun(Dumps(Lines, MaxLines), BOOLEAN)

InitDeep == InitRun(Dumps(Chunks, MaxChunks), {FALSE})

\* Lines 48-53: db.sql("REMOVE NAMESPACE IF EXISTS ..."), then the file is
\* opened and the stream created.
RemoveNamespace ==
    /\ pc = "start"
    /\ \E ok \in BOOLEAN : pc' = IF ok THEN "segment" ELSE "error"
    /\ UNCHANGED <<file, debug, stream, section, definitions, tables,
                   data_offset, data_statements, scan, workers, sink, files,
                   imp, lex>>

\* Lines 67-139: one turn of the segmentation loop; at the end of the file,
\* the last segment is pushed and the definitions are sent to the sink.
Segment ==
    /\ pc = "segment"
    /\ \E r \in {next_statement(file, debug, stream)} :
       \E s \in {Seg(section, definitions, tables, data_offset,
                     data_statements)} :
       \E t \in {IF r.tok.kind = "Comment" THEN OnComment(s, r.tok)
                 ELSE IF r.tok.kind = "Query" THEN OnQuery(s, r.tok.text)
                 ELSE IF r.tok.kind = "None" THEN OnEof(s)
                 ELSE s} :
           /\ stream' = r.st
           /\ section' = t.section
           /\ definitions' = t.definitions
           /\ tables' = t.tables
           /\ data_offset' = t.data_offset
           /\ data_statements' = t.data_statements
           /\ scan' = ScanStep(scan, s, t, r.tok)
           /\ pc' = IF r.tok.kind = "None" THEN "defs"
                    ELSE IF r.tok.kind = "Err" THEN "error"
                    ELSE IF r.tok.kind = "Panic" THEN "panic"
                    ELSE "segment"
           /\ sink' = IF r.tok.kind = "None"
                      THEN [sink EXCEPT !.defs = "inflight"]
                      ELSE sink
    /\ UNCHANGED <<file, debug, workers, files, imp, lex>>

\* Line 139 without the `?`: the result of the import is dropped.
AfterDefs_Ignored(ret) == "tables"

\* Line 139: `db.import(..).await.context(..)?`: an Err ends main.
AfterDefs(ret) == IF IsErr(ret) THEN "error" ELSE "tables"

\* Lines 139-150: db.import("Initial", 0, &definitions) returns; an Err ends
\* main, an Ok builds the stream of table futures.
DefsReturn ==
    /\ pc = "defs"
    /\ \E resp \in SinkResponses(definitions), io_ok \in BOOLEAN :
       \E r \in {import("Initial", 0, definitions, resp, io_ok, files)} :
           /\ files' = r.files
           /\ pc' = AfterDefs(r.ret)
           /\ sink' = [defs |-> IF IsErr(r.ret) THEN "err" ELSE "ok",
                       inflight |-> IF AfterDefs(r.ret) = "tables"
                                    THEN [i \in 1..Len(tables) |-> 0]
                                    ELSE <<>>]
           /\ workers' = IF AfterDefs(r.ret) = "tables"
                         THEN [i \in 1..Len(tables) |-> Idle]
                         ELSE <<>>
    /\ UNCHANGED <<file, debug, stream, section, definitions, tables,
                   data_offset, data_statements, scan, imp, lex>>

\* buffer_unordered takes the next future from the stream and polls it.
WorkerStart(i) ==
    /\ pc = "tables"
    /\ NextToStart(i)
    /\ CanStart
    /\ workers' = [workers EXCEPT ![i] = Started(file, tables[i])]
    /\ UNCHANGED <<file, debug, pc, stream, section, definitions, tables,
                   data_offset, data_statements, scan, sink, files, imp, lex>>

\* Lines 174-225: the worker reads its next batch and sends it to the sink.
WorkerRead(i) ==
    /\ pc = "tables"
    /\ i \in DOMAIN workers
    /\ workers[i].pc = "read"
    /\ \E w \in {Fill(file, debug, workers[i])} :
           IF w.pc = "panic"
           THEN /\ pc' = "panic"
                /\ workers' = [workers EXCEPT ![i] = w]
                /\ sink' = sink
           ELSE /\ pc' = pc
                /\ workers' = [workers EXCEPT ![i] = [w EXCEPT !.pc = "import"]]
                /\ sink' = [sink EXCEPT !.inflight[i] = @ + 1]
    /\ UNCHANGED <<file, debug, stream, section, definitions, tables,
                   data_offset, data_statements, scan, files, imp, lex>>

\* Lines 225-233: db.import returns to the worker.
WorkerReturn(i) ==
    /\ pc = "tables"
    /\ i \in DOMAIN workers
    /\ workers[i].pc = "import"
    /\ \E resp \in SinkResponses(workers[i].batch), io_ok \in BOOLEAN :
       \E r \in {import(tables[i].name, workers[i].completed,
                        workers[i].batch, resp, io_ok, files)} :
           /\ files' = r.files
           /\ workers' = [workers EXCEPT
                  ![i] = AfterImport(workers[i], tables[i], IsErr(r.ret))]
           /\ sink' = [sink EXCEPT !.inflight[i] = @ - 1]
    /\ UNCHANGED <<file, debug, pc, stream, section, definitions, tables,
                   data_offset, data_statements, scan, imp, lex>>

\* Lines 236-242: every future has finished; main returns Ok.
Finish ==
    /\ pc = "tables"
    /\ \A i \in DOMAIN workers : workers[i].pc = "done"
    /\ pc' = "done"
    /\ UNCHANGED <<file, debug, stream, section, definitions, tables,
                   data_offset, data_statements, scan, workers, sink, files,
                   imp, lex>>

Next ==
    \/ RemoveNamespace
    \/ Segment
    \/ DefsReturn
    \/ \E i \in DOMAIN workers : WorkerStart(i)
    \/ \E i \in DOMAIN workers : WorkerRead(i)
    \/ \E i \in DOMAIN workers : WorkerReturn(i)
    \/ Finish

Spec == Init /\ [][Next]_vars

\* The runtime polls every future that can make progress, the sink answers
\* every request, and main runs on: each step that stays possible is taken.
Fairness ==
    /\ WF_vars(RemoveNamespace)
    /\ WF_vars(Segment)
    /\ WF_vars(DefsReturn)
    /\ WF_vars(Finish)
    /\ \A i \in 1..MaxChunks :
          /\ WF_vars(WorkerStart(i))
          /\ WF_vars(WorkerRead(i))
          /\ WF_vars(WorkerReturn(i))

SpecDeep == InitDeep /\ [][Next]_vars /\ Fairness

(***************************************************************************)
(* One call of DB::import (lines 267-326), step by step.                   *)
(***************************************************************************)
Statuses == {Result("OK", ""), Result("ERR", "duplicate key"),
             Result("ERR", "The query was " \o ABORTED)}

RECURSIVE SeqsUpTo(_, _)
SeqsUpTo(S, n) ==
    IF n = 0 THEN {<<>>}
    ELSE LET P == SeqsUpTo(S, n - 1)
         IN  P \cup {Append(p, x) : p \in P, x \in S}

\* What the sink may answer to an import request.
ImportResponses ==
    {Response("send_err", <<>>), Response("http", <<>>),
     Response("bad_json", <<>>)}
    \cup {Response("json", rs) : rs \in SeqsUpTo(Statuses, MaxBatchLen)}

Call(table, completed, batch) ==
    [pc |-> "send", table |-> table, completed |-> completed, batch |-> batch,
     results |-> <<>>, errors |-> <<>>, ret |-> Ret("Ok", 0)]

InitImport ==
    /\ file = ""
    /\ debug = FALSE
    /\ pc = "import"
    /\ stream = StatementStream(0, 0)
    /\ section = Definitions("Initial")
    /\ definitions = <<>>
    /\ tables = <<>>
    /\ data_offset = 0
    /\ data_statements = 0
    /\ scan = [n |-> 0, open |-> <<>>, segs |-> <<>>]
    /\ workers = <<>>
    /\ sink = [defs |-> "none", inflight |-> <<>>]
    /\ files = {}
    /\ imp \in {Call("a", completed, batch) :
                   completed \in 0..MaxCompleted,
                   batch \in SeqsUpTo({"q;\n"}, MaxBatchLen)}
    /\ lex = LexOff

\* Lines 268-303: the request is sent and the response read.
ImportSend ==
    /\ imp.pc = "send"
    /\ \E resp \in ImportResponses :
       \E errors \in {IF Refused(resp) THEN <<>>
                      ELSE CollectErrors(resp.results)} :
          imp' = [imp EXCEPT
                    !.results = resp.results,
                    !.errors = errors,
                    !.ret = IF Refused(resp) THEN RefusedRet(resp)
                            ELSE Ret("Ok", 0),
                    !.pc = IF Refused(resp) \/ errors = <<>> THEN "returned"
                           ELSE "dump"]
    /\ UNCHANGED <<file, debug, pc, stream, section, definitions, tables,
                   data_offset, data_statements, scan, workers, sink, files,
                   lex>>

\* Lines 305-312: the failing batch and its errors are written to
\* "<table>-Errors.json"; an io::Error is returned by `?`.
ImportDump ==
    /\ imp.pc = "dump"
    /\ \E io_ok \in BOOLEAN :
          IF io_ok
          THEN /\ files' = WriteDump(files,
                               DumpFile(imp.table, imp.errors, imp.batch))
               /\ imp' = [imp EXCEPT !.pc = "attribute"]
          ELSE /\ files' = files
               /\ imp' = [imp EXCEPT !.pc = "returned", !.ret = Ret("Io", 0)]
    /\ UNCHANGED <<file, debug, pc, stream, section, definitions, tables,
                   data_offset, data_statements, scan, workers, sink, lex>>

\* Lines 314-325: the error returned for the collected errors.
ImportAttribute ==
    /\ imp.pc = "attribute"
    /\ imp' = [imp EXCEPT !.pc = "returned",
                          !.ret = Attribute(imp.errors, imp.completed)]
    /\ UNCHANGED <<file, debug, pc, stream, section, definitions, tables,
                   data_offset, data_statements, scan, workers, sink, files,
                   lex>>

NextImport == ImportSend \/ ImportDump \/ ImportAttribute

SpecImport == InitImport /\ [][NextImport]_vars


(***************************************************************************)
(* One StatementStream (parse.rs), read call by call from any position of  *)
(* a file.                                                                 *)
(***************************************************************************)
LexLines == {"q;\n", "q\n", "r", "-- c\n", "\n", "X;\n", "~\n"}

\* A stream opened at cursor `start`, before its first call.
Opened(start) ==
    [start |-> start, calls |-> 0,
     before |-> StatementStream(start, stream_position(file, start)),
     tok |-> Tok("None", 0, ""), toks |-> <<>>]

InitLex ==
    /\ file \in Dumps(LexLines, MaxLexLines)
    /\ debug \in BOOLEAN
    /\ pc = "lex"
    /\ \E start \in 0..Len(file) :
          /\ stream = StatementStream(start, stream_position(file, start))
          /\ lex = Opened(start)
    /\ section = Definitions("Initial")
    /\ definitions = <<>>
    /\ tables = <<>>
    /\ data_offset = 0
    /\ data_statements = 0
    /\ scan = [n |-> 0, open |-> <<>>, segs |-> <<>>]
    /\ workers = <<>>
    /\ sink = [defs |-> "none", inflight |-> <<>>]
    /\ files = {}
    /\ imp = ImpOff

\* One call of stream.next_statement().await; an Err or a panic ends the
\* reading, a None does not.
LexNext ==
    /\ pc = "lex"
    /\ lex.calls < MaxCalls
    /\ \E r \in {next_statement(file, debug, stream)} :
          /\ stream' = r.st
          /\ lex' = [lex EXCEPT !.calls = @ + 1,
                                !.before = stream,
                                !.tok = r.tok,
                                !.toks = Append(@, r.tok.kind)]
          /\ pc' = IF r.tok.kind = "Err" THEN "error"
                   ELSE IF r.tok.kind = "Panic" THEN "panic"
                   ELSE "lex"
    /\ UNCHANGED <<file, debug, section, definitions, tables, data_offset,
                   data_statements, scan, workers, sink, files, imp>>

NextLex == LexNext

SpecLex == InitLex /\ [][NextLex]_vars


(***************************************************************************)
(* The run of main on dumps whose second section marker is written with    *)
(* different spacing around the prefix and the separator.                  *)
(***************************************************************************)
Markers == {"-- TABLE: users --", "--TABLE:users", "-- TABLE: users",
            "--TABLE: users", "-- TABLE:users", "-- TABLE : users"}

\* A Data section of one statement, the marker m, one more statement.
MarkerDump(m) == "-- TABLE DATA: users\nq;\n" \o m \o "\nq;\n"

MarkerDumps == {MarkerDump(m) : m \in Markers}

InitMarkers == InitRun(MarkerDumps, BOOLEAN)

SpecMarkers == InitMarkers /\ [][Next]_vars


(***************************************************************************)
(* The run of main on a dump of more table sections than the worker pool   *)
(* holds, with a sink that accepts every request.                          *)
(***************************************************************************)
RECURSIVE Repeat(_, _)
Repeat(text, n) == IF n = 0 THEN "" ELSE text \o Repeat(text, n - 1)

\* PoolTables table sections; the last one holds no row.
PoolDump ==
    Repeat("-- TABLE: a\n-- TABLE DATA: a\nq;\n", PoolTables - 1)
        \o "-- TABLE: a\n-- TABLE DATA: a\n"

InitPool == InitRun({PoolDump}, {FALSE})

\* No request has been refused or answered with a failing status.
SinkOk ==
    /\ sink.defs # "err"
    /\ files = {}
    /\ \A i \in DOMAIN workers : ~workers[i].failed

NextOk == Next /\ SinkOk'

SpecPool == InitPool /\ [][NextOk]_vars


(***************************************************************************)
(* The claims.                                                             *)
(***************************************************************************)
RECURSIVE SumStatements(_)
SumStatements(tabs) ==
    IF tabs = <<>> THEN 0
    ELSE Head(tabs).statements + SumStatements(Tail(tabs))

\* The segmentation pass has read the whole file and sent the definitions.
SegmentationDone == sink.defs # "none"

\* C1: after the segmentation pass, the retained definition statements plus
\* the statement counts of all emitted segments are exactly the Query
\* tokens the lexer yielded in the pass, also when the file ends inside a
\* Data section.
C1_EveryQueryCountedOnce ==
    SegmentationDone =>
        Len(definitions) + SumStatements(tables) = scan.n

\* C1's case: the file ended inside a Data section that holds statements,
\* after a definition statement.
C1_Witness ==
    /\ SegmentationDone
    /\ section.kind = "Data"
    /\ Len(tables) >= 1
    /\ tables[Len(tables)].statements >= 1
    /\ Len(definitions) >= 1

\* The Query tokens a fresh lexer yields from stream st on, up to the next
\* "TABLE" marker or the end of the file.
RECURSIVE Relex(_, _, _)
RelexToken(f, dbg, r) ==
    IF r.tok.kind \in {"None", "Err", "Panic"} THEN <<>>
    ELSE IF r.tok.kind = "Comment"
    THEN IF Classify(r.tok.text).prefix = "TABLE" THEN <<>>
         ELSE Relex(f, dbg, r.st)
    ELSE <<[off |-> r.tok.off, text |-> r.tok.text]>> \o Relex(f, dbg, r.st)

Relex(f, dbg, st) ==
    CHOOSE out \in {RelexToken(f, dbg, r) :
                       r \in {next_statement(f, dbg, st)}} : TRUE

\* C2: for every segment of the segmentation pass, a fresh lexer opened at
\* segment.offset yields, before the next TABLE marker or the end of the
\* file, exactly segment.statementCount Query tokens, the same tokens in the
\* same order as the linear scan counted for the segment.
C2_RelexReproducesSegment ==
    SegmentationDone =>
        \A i \in DOMAIN tables :
            LET toks == Relex(file, debug,
                              StatementStream(seek(file, tables[i].offset),
                                              tables[i].offset))
            IN  /\ Len(toks) = tables[i].statements
                /\ toks = scan.segs[i]


\* C3: no data batch is submitted to the sink before the definitions import
\* has returned success; if the definitions import fails, the run ends
\* with an error, no table worker is started and no data batch is
\* submitted.
C3_DefinitionsBarrier ==
    /\ \A i \in DOMAIN workers :
          workers[i].pc # "idle" => sink.defs = "ok"
    /\ \A i \in DOMAIN sink.inflight :
          sink.inflight[i] > 0 => sink.defs = "ok"
    /\ sink.defs = "err" => pc = "error" /\ workers = <<>>
    /\ sink.defs = "inflight" => workers = <<>>

\* C3's case: the definitions import has returned success and a worker has
\* a batch of statements at the sink.
C3_Witness ==
    /\ sink.defs = "ok"
    /\ Len(definitions) >= 1
    /\ \E i \in DOMAIN workers :
          workers[i].pc = "import" /\ workers[i].batch # <<>>

StrictlyIncreasing(offs) ==
    \A j \in 1..(Len(offs) - 1) : offs[j] < offs[j + 1]

\* C4: the statements a worker submits, over its batches in submission
\* order, are in the order of the dump, and the worker has at most one
\* batch at the sink: the next is submitted only after the sink call for
\* the one before has returned.
C4_FileOrderOneInFlight ==
    \A i \in DOMAIN workers :
        /\ StrictlyIncreasing(workers[i].sent \o workers[i].offs)
        /\ sink.inflight[i] <= 1
        /\ sink.inflight[i] = 1 <=> workers[i].pc = "import"

\* C4's case: a worker whose first batch has returned has its second batch
\* at the sink.
C4_Witness ==
    \E i \in DOMAIN workers :
        /\ workers[i].pc = "import"
        /\ Len(workers[i].sent) >= 2
        /\ Len(workers[i].offs) >= 1

RECURSIVE TotalLen(_)
TotalLen(batch) ==
    IF batch = <<>> THEN 0 ELSE len(Head(batch)) + TotalLen(Tail(batch))

\* C5: every data batch a worker submits is, without its last statement,
\* strictly below BATCH_TARGET_BYTES.
C5_BatchBelowTargetBeforeLast ==
    \A i \in DOMAIN workers :
        workers[i].pc = "import" /\ workers[i].batch # <<>> =>
            /\ TotalLen(SubSeq(workers[i].batch, 1, Len(workers[i].batch) - 1))
                   < BATCH_TARGET_BYTES
            /\ workers[i].bytes = TotalLen(workers[i].batch)

\* C5's case: a submitted batch of several statements that reached the
\* target.
C5_Witness ==
    \E i \in DOMAIN workers :
        /\ workers[i].pc = "import"
        /\ Len(workers[i].batch) >= 2
        /\ TotalLen(workers[i].batch) >= BATCH_TARGET_BYTES


\* The table each statement of the dump belongs to: the table named by the
\* last "TABLE" or "TABLE DATA" marker before it, "Initial" before the
\* first marker.  A set of <<offset, table>>.
RECURSIVE Owners(_, _, _)
OwnersToken(f, table, r, c) ==
    IF r.tok.kind \in {"None", "Err", "Panic"} THEN {}
    ELSE IF r.tok.kind = "Comment"
    THEN Owners(f, r.st,
                IF c.prefix \in {"TABLE", "TABLE DATA"} THEN c.suffix
                ELSE table)
    ELSE {<<r.tok.off, table>>} \cup Owners(f, r.st, table)

Owners(f, st, table) ==
    CHOOSE out \in {OwnersToken(f, t, r, Classify(r.tok.text)) :
                       t \in {table},
                       r \in {next_statement(f, FALSE, st)}} : TRUE

OwnersOf(offs) ==
    {o[2] : o \in {x \in Owners(file, StatementStream(0, 0), "Initial") :
                      \E j \in DOMAIN offs : offs[j] = x[1]}}

\* C6: no batch a worker submits holds statements of two different tables.
C6_BatchWithinOneTable ==
    \A i \in DOMAIN workers :
        workers[i].pc = "import" =>
            Cardinality(OwnersOf(workers[i].offs)) <= 1

\* C7: once the sink has reported a failure for a batch of one table, every
\* other worker runs to completion having submitted exactly its segment's
\* statementCount statements, and the import phase completes.
C7_FailureLeavesSiblingsToFinish ==
    \A i \in 1..MaxChunks :
        [](/\ i \in DOMAIN workers
            /\ workers[i].failed
            => <>(/\ pc = "done"
                  /\ \A j \in DOMAIN workers \ {i} :
                        /\ workers[j].pc = "done"
                        /\ Len(workers[j].sent) = tables[j].statements))

\* The position within the batch, from 0, of the first statement whose
\* status is a failure that is not the aborted-transaction one; -1 if none.
RECURSIVE FirstPrimary(_, _)
FirstPrimary(results, k) ==
    IF k >= Len(results) THEN -1
    ELSE IF results[k + 1].status = "ERR" /\ IsPrimary(results[k + 1].result)
    THEN k
    ELSE FirstPrimary(results, k + 1)

\* DB::import has returned one of its two statement-failure errors.
Attributed == imp.pc = "returned" /\ imp.ret.kind \in {"Index", "Unknown"}

\* C8: when some failing status of the batch result is not an
\* aborted-transaction error, DB::import reports the failure at the
\* position within the batch of the first such statement plus the
\* completed count.
C8_PrimaryAtAbsoluteIndex ==
    /\ Attributed
    /\ Len(imp.results) = Len(imp.batch)
    /\ FirstPrimary(imp.results, 0) >= 0
    => imp.ret = Ret("Index", FirstPrimary(imp.results, 0) + imp.completed)

\* C9: DB::import reports the unknown location if and only if there is an
\* error and every collected error is an aborted-transaction error; when
\* some collected error is primary, in any position, the resolved failure
\* is reported.
C9_UnknownIffAllSecondary ==
    Attributed =>
        /\ imp.ret.kind = "Unknown" <=>
              /\ imp.errors # <<>>
              /\ \A k \in DOMAIN imp.errors : ~IsPrimary(imp.errors[k])
        /\ (\E k \in DOMAIN imp.errors : IsPrimary(imp.errors[k]))
              => imp.ret.kind = "Index"

Persisted ==
    \E rec \in files : rec.table = imp.table /\ rec.queries = imp.batch

Returned == lex.calls >= 1 /\ lex.tok.kind \in {"Comment", "Query"}

\* The bytes of the file from cursor c on begin with text.
TextAt(c, text) ==
    /\ c + Len(text) <= Len(file)
    /\ SubSeq(file, c + 1, c + Len(text)) = text

\* C11: the offset returned with a token is the position in the file of the
\* token's first byte, for a stream opened at any position: the bytes of
\* the file at that offset are the token's text.
C11_OffsetIsFirstByte ==
    Returned =>
        \E c \in lex.start..Len(file) :
            /\ stream_position(file, c) = lex.tok.off
            /\ TextAt(c, lex.tok.text)


\* The last call of the stream found the input at its end.
CalledAtEof == lex.calls >= 1 /\ lex.before.cur = Len(file)

C13_MarkerSpacingIgnored ==
    /\ SegmentationDone =>
          /\ \A m \in Markers :
                file = MarkerDump(m) =>
                    Classify(m) = [prefix |-> "TABLE", suffix |-> "users"]
          /\ section = Definitions("users")
          /\ Len(definitions) = 1
          /\ tables = <<Table("users", 0, 1)>>
    /\ \A i \in DOMAIN workers :
          Len(workers[i].sent) + Len(workers[i].batch) <= 1


\* C14: at every point of the import phase, the workers that have started
\* and not finished are at most BUFFER_UNORDERED, also when there are more
\* table segments than that; a worker starts only when fewer than
\* BUFFER_UNORDERED are active, and the workers start in the order of the
\* segments.
C14_AtMostKActive ==
    [][/\ Cardinality(Active') <= BUFFER_UNORDERED
       /\ \A i \in DOMAIN workers :
             workers[i].pc = "idle" /\ workers'[i].pc # "idle" =>
                 /\ Cardinality(Active) < BUFFER_UNORDERED
                 /\ \A j \in 1..(i - 1) : workers[j].pc # "idle"]_vars

\* C14's case: the pool is full and a table segment waits for a worker to
\* finish.
C14_Witness ==
    /\ Cardinality(Active) = BUFFER_UNORDERED
    /\ Len(tables) > BUFFER_UNORDERED
    /\ \E i \in DOMAIN workers : workers[i].pc = "idle"

\* C15: after the sink has reported a failure for a batch of a table, the
\* table's worker is aborted: it submits no further batch.
C15_FailedWorkerSubmitsNothing ==
    \A i \in DOMAIN workers :
        workers[i].failed => workers[i].pc # "import"

\* The Data sections of the file from stream st on, as a linear scan of the
\* tokens reads them: one per "TABLE DATA" marker, with the marker's table
\* name and the Query tokens read up to the next "TABLE" or "TABLE DATA"
\* marker or the end of the file.  open holds the section being read.
RECURSIVE DataSections(_, _, _, _)
DataSectionsToken(f, dbg, r, open) ==
    IF r.tok.kind \in {"None", "Err", "Panic"} THEN open
    ELSE IF r.tok.kind = "Comment"
    THEN LET c == Classify(r.tok.text)
         IN  IF c.prefix = "TABLE"
             THEN open \o DataSections(f, dbg, r.st, <<>>)
             ELSE IF c.prefix = "TABLE DATA"
             THEN open \o DataSections(f, dbg, r.st,
                               <<[name |-> c.suffix, statements |-> 0]>>)
             ELSE DataSections(f, dbg, r.st, open)
    ELSE IF open = <<>> THEN DataSections(f, dbg, r.st, open)
    ELSE DataSections(f, dbg, r.st,
             <<[open[1] EXCEPT !.statements = open[1].statements + 1]>>)

DataSections(f, dbg, st, open) ==
    CHOOSE out \in {DataSectionsToken(f, dbg, r, o) :
                       r \in {next_statement(f, dbg, st)},
                       o \in {open}} : TRUE

\* C16: the segmentation pass emits exactly one segment per "TABLE DATA"
\* marker of the dump, in file order and with the marker's table name, and
\* its statement count is the number of Query tokens read while that Data
\* section was the current one, also when a "TABLE DATA" marker directly
\* follows another Data section.
C16_OneSegmentPerDataMarker ==
    SegmentationDone =>
        \E expected \in {DataSections(file, debug, StatementStream(0, 0),
                                      <<>>)} :
            /\ Len(tables) = Len(expected)
            /\ \A i \in DOMAIN tables :
                  /\ i \in DOMAIN expected
                  /\ tables[i].name = expected[i].name
                  /\ tables[i].statements = expected[i].statements

\* The offset of the first "TABLE" marker a lexer opened at stream st
\* returns; NoPos if it returns none.
RECURSIVE TableMarkerAfter(_, _, _)
TableMarkerAfterToken(f, dbg, r) ==
    IF r.tok.kind \in {"None", "Err", "Panic"} THEN NoPos
    ELSE IF r.tok.kind = "Comment" /\ Classify(r.tok.text).prefix = "TABLE"
    THEN r.tok.off
    ELSE TableMarkerAfter(f, dbg, r.st)

TableMarkerAfter(f, dbg, st) ==
    CHOOSE out \in {TableMarkerAfterToken(f, dbg, r) :
                       r \in {next_statement(f, dbg, st)}} : TRUE

\* C17: once a worker's lexer has returned a "TABLE" marker the worker
\* stops: no statement it holds in a batch or has submitted lies after that
\* marker in the file, also when its completed count is below the segment's
\* statement count.
C17_NothingPastTableMarker ==
    \A i \in DOMAIN workers :
        workers[i].pc # "idle" =>
            \E marker \in {TableMarkerAfter(file, debug,
                               StatementStream(seek(file, tables[i].offset),
                                               tables[i].offset))} :
                marker # NoPos =>
                    /\ \A k \in DOMAIN workers[i].sent :
                          workers[i].sent[k] < marker
                    /\ \A k \in DOMAIN workers[i].offs :
                          workers[i].offs[k] < marker

\* C18: for every dump and every sequence of sink responses, once the import
\* phase has begun every table worker eventually finishes and the run
\* reaches its end, also when a worker's lexer reaches the next "TABLE"
\* marker or the end of the file before its completed count reaches the
\* segment's statement count.
C18_EveryWorkerFinishes ==
    (pc = "tables") ~>
        (pc = "done" /\ \A i \in DOMAIN workers : workers[i].pc = "done")

\* C19: whenever next_statement reads a comment line, the query accumulator
\* is empty: the invariant check passes and the Comment token is returned
\* with no statement text pending, so no Comment token is emitted ahead of
\* statement text that precedes it in the file.
C19_CommentOnlyWithEmptyAccumulator ==
    lex.calls >= 1 /\ lex.tok.kind \in {"Comment", "Panic"} =>
        stream.pending = ""

\* The runs of the deep dumps in which every call of the sink succeeds.
SpecAllOk == InitDeep /\ [][NextOk]_vars

\* The Query tokens of the file from stream st on, each with the kind of the
\* section that is the current one when a linear scan reads it.  A set of
\* <<offset, text, kind>>.
RECURSIVE Queries(_, _, _, _)
QueriesToken(f, dbg, r, kind) ==
    IF r.tok.kind \in {"None", "Err", "Panic"} THEN {}
    ELSE IF r.tok.kind = "Comment"
    THEN LET c == Classify(r.tok.text)
         IN  Queries(f, dbg, r.st,
                     IF c.prefix = "TABLE" THEN "Definitions"
                     ELSE IF c.prefix = "TABLE DATA" THEN "Data"
                     ELSE kind)
    ELSE {<<r.tok.off, r.tok.text, kind>>} \cup Queries(f, dbg, r.st, kind)

Queries(f, dbg, st, kind) ==
    CHOOSE out \in {QueriesToken(f, dbg, r, k) :
                       r \in {next_statement(f, dbg, st)},
                       k \in {kind}} : TRUE

\* The submissions of the statement at offset off by the table workers.
Submissions(off) ==
    UNION {{<<i, k>> : k \in {j \in DOMAIN workers[i].sent :
                                  workers[i].sent[j] = off}} :
              i \in DOMAIN workers}

\* C20: in a run in which every call of the sink succeeds, every Query token
\* of the dump has been submitted exactly once when the run ends: the
\* statements of the Definitions sections are the definitions batch, and each
\* statement of a Data section is in exactly one batch of exactly one worker.
C20_EveryQuerySubmittedOnce ==
    pc = "done" =>
        \E all \in {Queries(file, debug, StatementStream(0, 0),
                            "Definitions")} :
            /\ Len(definitions)
                   = Cardinality({q \in all : q[3] = "Definitions"})
            /\ \A q \in all :
                  Cardinality(Submissions(q[1]))
                      = IF q[3] = "Data" THEN 1 ELSE 0

=============================================================================
